---- MODULE Spec2Model ----
(***************************************************************************)
(* get-changed-files: a GitHub action that resolves a (base, head) commit  *)
(* pair from the triggering event, asks the compare-two-commits API for    *)
(* the changed files, filters them by extension, classifies them by status *)
(* and sets seven named outputs; plus the git subprocess helper.           *)
(*                                                                         *)
(* The code of run() and of the event handlers (main.ts) is the TypeScript *)
(* text in src/tsconfig.json, lines 40-277; the git helper is              *)
(* src/src/git-helper.ts.                                                  *)
(*                                                                         *)
(* Text is modelled as a sequence of one-character strings, so that        *)
(* split, trim, extname, includes(' ') and join are computed as the code   *)
(* computes them.  Commit references, event names, formats and statuses    *)
(* are atoms (TLA+ strings).                                               *)
(***************************************************************************)
EXTENDS Integers, Sequences, FiniteSets, TLC

VARIABLES
  \* ---- run() of main.ts ----
  pc,                  \* position of run(): start, resolve, diffStatus, diffNames,
                       \* compare, classify, emit, done (run returned), exited (process.exit)
  context,             \* github.context: eventName, payload fields, sha
  branchListing,       \* the local repository's branches, what `git -P branch` prints
  tokenInput,          \* whether the required `token` input is configured
  formatInput,         \* the `format` input as configured
  extensionsInput,     \* the `extensions` input as configured (text)
  remote,              \* what the compare-two-commits API will answer
  format,              \* const format
  extensions,          \* const extensions (array of texts)
  base, head,          \* the resolved commit pair
  response,            \* const response
  files,               \* const files (the filtered entries)
  idx,                 \* entries of files already visited by forEach
  all, added, modified, removed, renamed, addedModifiedRenamed,
  formatted,           \* allFormatted .. addedModifiedFormatted
  outputs,             \* core.setOutput: name -> value, for the names set so far
  failures,            \* the kinds of failure core.setFailed has reported
  exitCode,            \* process.exitCode
  compareCalls,        \* the (base, head) pairs compareCommits was called with
  gitCalls,            \* the argument lists the handlers passed to git
  \* ---- git-helper.ts ----
  gpc,                 \* position of the exported function being run
  gEntry,              \* which exported function was called
  gArgs,               \* the args array client received
  gitInstalled,        \* whether a git executable is on the PATH
  gClient,             \* const client (the resolved path), or undefined
  gStdout,             \* const stdout: the captured chunks
  gWritten,            \* everything the subprocess wrote to its stdout, in order
  gExecCalls,          \* the (tool, args) pairs exec was called with
  gExited,             \* whether the subprocess has completed
  gResult,             \* what client returned (text), once it has
  gReturn,             \* what the exported function returned, once it has
  gError               \* the error the exported function threw, if any

runVars == <<pc, context, branchListing, tokenInput, formatInput, extensionsInput, remote,
             format, extensions, base, head, response, files, idx,
             all, added, modified, removed, renamed, addedModifiedRenamed,
             formatted, outputs, failures, exitCode, compareCalls, gitCalls>>

gitVars == <<gpc, gEntry, gArgs, gitInstalled, gClient, gStdout, gWritten,
             gExecCalls, gExited, gResult, gReturn, gError>>

vars == <<runVars, gitVars>>

(***************************************************************************)
(* Bounds.                                                                 *)
(***************************************************************************)
MaxFiles == 2        \* entries in a comparison answer
MaxBranches == 2     \* lines of the local branch listing
MaxChunks == 3       \* stdout chunks of a diff/status/client subprocess
MaxOutLen == 5       \* tokens of an ls-remote output

Undefined == "undefined"

(***************************************************************************)
(* Text helpers (JavaScript String / Array methods used by the code).      *)
(***************************************************************************)
IsSpace(c) == c \in {" ", "\t", "\n"}

RECURSIVE TrimStart(_)
TrimStart(s) == IF s # <<>> /\ IsSpace(Head(s)) THEN TrimStart(Tail(s)) ELSE s

RECURSIVE TrimEnd(_)
TrimEnd(s) ==
  IF s # <<>> /\ IsSpace(s[Len(s)]) THEN TrimEnd(SubSeq(s, 1, Len(s) - 1)) ELSE s

Trim(s) == TrimEnd(TrimStart(s))

RECURSIVE Split(_, _)
Split(s, sep) ==
  IF \E i \in 1..Len(s) : s[i] = sep
  THEN LET i == CHOOSE k \in 1..Len(s) :
                  s[k] = sep /\ \A j \in 1..(k - 1) : s[j] # sep
       IN  <<SubSeq(s, 1, i - 1)>> \o Split(SubSeq(s, i + 1, Len(s)), sep)
  ELSE <<s>>

Includes(arr, x) == \E i \in 1..Len(arr) : arr[i] = x

RECURSIVE Join(_, _)
Join(arr, sep) ==
  IF arr = <<>> THEN <<>>
  ELSE IF Len(arr) = 1 THEN arr[1]
  ELSE arr[1] \o sep \o Join(Tail(arr), sep)

MapTrim(arr) == [i \in 1..Len(arr) |-> Trim(arr[i])]

\* path.basename part used by path.extname: the text after the last "/".
Basename(p) ==
  IF \E i \in 1..Len(p) : p[i] = "/"
  THEN LET i == CHOOSE k \in 1..Len(p) :
                  p[k] = "/" /\ \A j \in (k + 1)..Len(p) : p[j] # "/"
       IN  SubSeq(p, i + 1, Len(p))
  ELSE p

\* path.extname: from the last "." of the basename to its end; empty when there
\* is no ".", when the only "." is the basename's first character, or for "..".
Extname(p) ==
  LET b == Basename(p) IN
  IF ~ \E i \in 1..Len(b) : b[i] = "." THEN <<>>
  ELSE LET d == CHOOSE k \in 1..Len(b) :
                  b[k] = "." /\ \A j \in (k + 1)..Len(b) : b[j] # "."
       IN  IF d = 1 \/ b = <<".", ".">> THEN <<>> ELSE SubSeq(b, d, Len(b))

\* JSON.stringify of a string whose characters need no escaping but " and \.
Quote(s) ==
  <<"\"">> \o
  Join([i \in 1..Len(s) |->
          IF s[i] \in {"\"", "\\"} THEN <<"\\", s[i]>> ELSE <<s[i]>>], <<>>)
  \o <<"\"">>

\* JSON.stringify of an array of strings.
JsonStringify(arr) ==
  <<"[">> \o Join([i \in 1..Len(arr) |-> Quote(arr[i])], <<",">>) \o <<"]">>

(***************************************************************************)
(* The inputs a run can meet.                                              *)
(***************************************************************************)
SeqsUpTo(S, n) == UNION {[1..k -> S] : k \in 0..n}

\* type Event
Events == {"pull_request", "push", "workflow_dispatch"}

\* type Format
ValidFormats == {"space-delimited", "csv", "json"}

\* type FileStatus
KnownStatuses == {"added", "modified", "removed", "renamed"}

\* The `format` input: unset (""), the three formats, and a value outside them.
FormatInputs == {"", "space-delimited", "csv", "json", "yaml"}

\* The `extensions` input: unset, ".ts", ".ts .md", and ".ts  .md" (two spaces).
ExtensionInputs ==
  { <<>>,
    <<".", "t", "s">>,
    <<".", "t", "s", " ", ".", "m", "d">>,
    <<".", "t", "s", " ", " ", ".", "m", "d">> }

\* File names: "x.ts", "a b.md" (with a space), "M" (no extension).
FileNames ==
  { <<"x", ".", "t", "s">>, <<"a", " ", "b", ".", "m", "d">>, <<"M">> }

\* The statuses the API gives, among them one outside FileStatus ("copied").
ApiStatuses == KnownStatuses \cup {"copied"}

Entries == [filename : FileNames, status : ApiStatuses]

\* response.status of a call that resolves: 200, or another 2xx.
HttpStatuses == {200, 204}

\* response.data.status
ComparisonStatuses == {"ahead", "behind", "identical", "diverged"}

RemoteThrows ==
  [throws |-> TRUE, status |-> 0, cmp |-> Undefined, hasFiles |-> FALSE, files |-> <<>>]

RemoteAnswer(st, cmp, hasFiles, fs) ==
  [throws |-> FALSE, status |-> st, cmp |-> cmp, hasFiles |-> hasFiles, files |-> fs]

\* Answers with at most one entry, of every http and comparison status; the
\* call failing; and an answer without the optional `files`.
SmallRemotes ==
  {RemoteThrows}
  \cup {RemoteAnswer(st, cmp, TRUE, fs) :
          st \in HttpStatuses, cmp \in ComparisonStatuses,
          fs \in {<<>>} \cup {<<e>> : e \in Entries}}
  \cup {RemoteAnswer(200, "ahead", FALSE, <<>>)}

\* Successful answers ("ahead", 200) with up to MaxFiles entries.
AheadRemotes ==
  {RemoteAnswer(200, "ahead", TRUE, fs) : fs \in SeqsUpTo(Entries, MaxFiles)}

Ctx(e, b, a, pb, ph, s) ==
  [eventName |-> e, before |-> b, after |-> a, prBase |-> pb, prHead |-> ph, sha |-> s]

\* A push whose payload holds both commits.
PushFull == Ctx("push", "c0", "c1", Undefined, Undefined, "c1")

\* Payloads with and without their fields; "release" is an event with no handler.
Contexts ==
  {Ctx("push", b, a, Undefined, Undefined, "c1") :
     b \in {"c0", Undefined}, a \in {"c1", Undefined}}
  \cup {Ctx("pull_request", Undefined, Undefined, "p0", "p1", "p1"),
        Ctx("pull_request", Undefined, Undefined, Undefined, Undefined, "p1")}
  \cup {Ctx("workflow_dispatch", Undefined, Undefined, Undefined, Undefined, "c1"),
        Ctx("release", Undefined, Undefined, Undefined, Undefined, "c1")}

\* A branch name is a sequence of tokens; only the tokens "develop", "main" and
\* "master" contain one of those words, and no word spans two tokens.
BranchNames ==
  { <<"main">>, <<"develop">>, <<"master">>, <<"topic">>,
    <<"feature/", "main", "-fix">> }

BranchListings == SeqsUpTo(BranchNames, MaxBranches)

\* What `git -P branch` prints: one branch per line.
RECURSIVE BranchOutput(_)
BranchOutput(listing) ==
  IF listing = <<>> THEN <<>>
  ELSE Head(listing) \o <<"\n">> \o BranchOutput(Tail(listing))

(***************************************************************************)
(* Pieces of run() that the actions below use.                             *)
(***************************************************************************)
\* core.getInput trims the value; then split(' ').map(it => it.trim()).
ParseExtensions(input) == MapTrim(Split(Trim(input), " "))

\* The filter callback: extensions.includes(path.extname(it.filename)) ||
\* extensions.includes('').
Accepts(exts, filename) == Includes(exts, Extname(filename)) \/ Includes(exts, <<>>)

\* format === 'space-delimited' && filename.includes(' ')
SpaceFailsInAnyFormat(fmt, filename) == Includes(filename, " ")

SpaceFails(fmt, filename) == fmt = "space-delimited" /\ Includes(filename, " ")

\* The cases of the switch on file.status that push to addedModifiedRenamed.
PushesAddedModifiedWithoutRenamed(status) == status \in {"added", "modified"}

PushesAddedModified(status) == status \in {"added", "modified", "renamed"}

\* A *Formatted variable that the switch on format left unassigned.
UnassignedText == <<"undefined">>

\* One group rendered by the switch on format.
RenderGroup(fmt, arr) ==
  CASE fmt = "space-delimited" -> Join(arr, <<" ">>)
    [] fmt = "csv"             -> Join(arr, <<",">>)
    [] fmt = "json"            -> JsonStringify(arr)
    [] OTHER                   -> UnassignedText

\* core.setOutput's conversion of a value: undefined becomes the empty text.
ToCommandValue(v) == IF v = UnassignedText THEN <<>> ELSE v

OutputNames ==
  {"all", "added", "modified", "removed", "renamed", "added_modified", "deleted"}

NoOutputs == [n \in {} |-> <<>>]

NoFormatted ==
  [all |-> UnassignedText, added |-> UnassignedText, modified |-> UnassignedText,
   removed |-> UnassignedText, renamed |-> UnassignedText,
   addedModified |-> UnassignedText]

NoResponse ==
  [received |-> FALSE, status |-> 0, cmp |-> Undefined, hasFiles |-> FALSE,
   files |-> <<>>]

\* (await git(['-P', 'branch'])).match(/develop|main|master/): the first
\* occurrence of one of the three words anywhere in the text, or no match.
ParentNames == {"develop", "main", "master"}

ParentMatch(text) ==
  IF \E i \in 1..Len(text) : text[i] \in ParentNames
  THEN text[CHOOSE k \in 1..Len(text) :
              text[k] \in ParentNames /\ \A j \in 1..(k - 1) : text[j] \notin ParentNames]
  ELSE Undefined

\* How a call of git by a handler ends: it returns the subprocess output, or
\* it throws (git is not found, the subprocess fails, or the imported `git`,
\* an object in git-helper.ts, is not callable).
GitOutcomes == {"returns", "throws"}

(***************************************************************************)
(* Initial states: the configuration, the event, the local branches and    *)
(* the remote's answer are fixed before run() starts.  Every event and     *)
(* payload is paired with the small answers; a full push is paired with    *)
(* every format, every extension input and the answers of up to MaxFiles   *)
(* entries.                                                                *)
(***************************************************************************)
RunIdle ==
  /\ format = Undefined /\ extensions = <<>>
  /\ base = Undefined /\ head = Undefined
  /\ response = NoResponse /\ files = <<>> /\ idx = 0
  /\ all = <<>> /\ added = <<>> /\ modified = <<>> /\ removed = <<>>
  /\ renamed = <<>> /\ addedModifiedRenamed = <<>>
  /\ formatted = NoFormatted /\ outputs = NoOutputs
  /\ failures = {} /\ exitCode = 0
  /\ compareCalls = <<>> /\ gitCalls = <<>>

GitIdle ==
  /\ gpc = "idle" /\ gEntry = Undefined /\ gArgs = <<>>
  /\ gClient = Undefined /\ gStdout = <<>> /\ gWritten = <<>>
  /\ gExecCalls = <<>> /\ gExited = FALSE
  /\ gResult = UnassignedText /\ gReturn = UnassignedText /\ gError = Undefined

Init ==
  /\ pc = "start"
  /\ RunIdle
  /\ \/ /\ context \in Contexts
        /\ branchListing \in
             (IF context.eventName = "workflow_dispatch" THEN BranchListings ELSE {<<>>})
        /\ tokenInput \in BOOLEAN
        /\ formatInput = ""
        /\ extensionsInput = <<>>
        /\ remote \in SmallRemotes
     \/ /\ context = PushFull
        /\ branchListing = <<>>
        /\ tokenInput = TRUE
        /\ formatInput \in FormatInputs
        /\ extensionsInput \in ExtensionInputs
        /\ remote \in SmallRemotes \cup AheadRemotes
  /\ GitIdle /\ gitInstalled = TRUE

(***************************************************************************)
(* run() and the event handlers.                                           *)
(***************************************************************************)
\* core.setFailed(message): the failure is reported and process.exitCode set.
SetFailed(kinds) ==
  /\ failures' = failures \cup kinds
  /\ exitCode' = IF kinds = {} THEN exitCode ELSE 1

\* catch (error) { if (error instanceof Error) core.setFailed(error.message) }
\* and run() returns.
Catch ==
  /\ SetFailed({"exception"})
  /\ pc' = "done"

\* The head of run(): the inputs are read and the format is checked (a value
\* outside the three formats is reported, and run() goes on).  A missing
\* required token makes getInput throw.
ReadInputs ==
  /\ pc = "start"
  /\ IF ~tokenInput
     THEN /\ Catch
          /\ UNCHANGED <<format, extensions>>
     ELSE /\ format' = (IF formatInput = "" THEN "space-delimited" ELSE formatInput)
          /\ extensions' = ParseExtensions(extensionsInput)
          /\ SetFailed(IF format' \notin ValidFormats THEN {"format"} ELSE {})
          /\ pc' = "resolve"
  /\ UNCHANGED <<context, branchListing, tokenInput, formatInput, extensionsInput,
                 remote, base, head, response, files, idx, all, added, modified,
                 removed, renamed, addedModifiedRenamed, formatted, outputs,
                 compareCalls, gitCalls>>
  /\ UNCHANGED gitVars

\* What the resolving steps leave alone.
ResolveFrame ==
  /\ UNCHANGED <<context, branchListing, tokenInput, formatInput, extensionsInput,
                 remote, format, extensions, response, files, idx, all, added,
                 modified, removed, renamed, addedModifiedRenamed, formatted,
                 outputs, compareCalls>>
  /\ UNCHANGED gitVars

\* handlers[eventName] is undefined for an event with no handler: calling it
\* throws a TypeError, which run() catches.
HandleUnknownEvent ==
  /\ pc = "resolve"
  /\ context.eventName \notin Events
  /\ Catch
  /\ UNCHANGED <<base, head, gitCalls>>
  /\ ResolveFrame

HandlePushEvent ==
  /\ pc = "resolve"
  /\ context.eventName = "push"
  /\ base' = context.before
  /\ head' = context.after
  /\ pc' = "compare"
  /\ UNCHANGED <<failures, exitCode, gitCalls>>
  /\ ResolveFrame

HandlePullRequestEvent ==
  /\ pc = "resolve"
  /\ context.eventName = "pull_request"
  /\ base' = context.prBase
  /\ head' = context.prHead
  /\ pc' = "compare"
  /\ UNCHANGED <<failures, exitCode, gitCalls>>
  /\ ResolveFrame

\* handleWorkflowDispatchEvent up to `const base = parent![0]`: the branches
\* are listed and searched; without a match panic() reports the failure and
\* exits the process at once.
HandleWorkflowDispatchEvent ==
  /\ pc = "resolve"
  /\ context.eventName = "workflow_dispatch"
  /\ \E outcome \in GitOutcomes :
       IF outcome = "throws"
       THEN /\ Catch
            /\ UNCHANGED <<base, head, gitCalls>>
       ELSE LET parent == ParentMatch(BranchOutput(branchListing)) IN
            /\ gitCalls' = Append(gitCalls, <<"-P", "branch">>)
            /\ IF parent = Undefined
               THEN /\ SetFailed({"no_parent"})
                    /\ pc' = "exited"
                    /\ UNCHANGED <<base, head>>
               ELSE /\ head' = context.sha
                    /\ base' = parent
                    /\ pc' = "diffStatus"
                    /\ UNCHANGED <<failures, exitCode>>
  /\ ResolveFrame

\* The name-status listing, computed for the debug log only.
DispatchDiffNameStatus ==
  /\ pc = "diffStatus"
  /\ \E outcome \in GitOutcomes :
       IF outcome = "throws"
       THEN /\ Catch
            /\ UNCHANGED gitCalls
       ELSE /\ gitCalls' = Append(gitCalls, <<"-P", "diff", "--name-status", base, head>>)
            /\ pc' = "diffNames"
            /\ UNCHANGED <<failures, exitCode>>
  /\ UNCHANGED <<base, head>>
  /\ ResolveFrame

\* The name-only listing, computed for the debug log only; the handler
\* returns {base, head}.
DispatchDiffNameOnly ==
  /\ pc = "diffNames"
  /\ \E outcome \in GitOutcomes :
       IF outcome = "throws"
       THEN /\ Catch
            /\ UNCHANGED gitCalls
       ELSE /\ gitCalls' = Append(gitCalls, <<"-P", "diff", "--name-only", base, head>>)
            /\ pc' = "compare"
            /\ UNCHANGED <<failures, exitCode>>
  /\ UNCHANGED <<base, head>>
  /\ ResolveFrame

\* compareCommits is called and awaited; a rejected call throws.  Then the
\* two checks (each reports a failure, and run() goes on) and the filter.
CompareCommits ==
  /\ pc = "compare"
  /\ compareCalls' = Append(compareCalls, <<base, head>>)
  /\ IF remote.throws
     THEN /\ Catch
          /\ UNCHANGED <<response, files>>
     ELSE /\ response' = [received |-> TRUE, status |-> remote.status,
                          cmp |-> remote.cmp, hasFiles |-> remote.hasFiles,
                          files |-> remote.files]
          /\ SetFailed((IF remote.status # 200 THEN {"http_status"} ELSE {})
                       \cup (IF remote.cmp # "ahead" THEN {"not_ahead"} ELSE {}))
          /\ files' = SelectSeq(remote.files,
                                LAMBDA it : Accepts(extensions, it.filename))
          /\ pc' = "classify"
  /\ UNCHANGED <<context, branchListing, tokenInput, formatInput, extensionsInput,
                 remote, format, extensions, base, head, idx, all, added, modified,
                 removed, renamed, addedModifiedRenamed, formatted, outputs, gitCalls>>
  /\ UNCHANGED gitVars

\* One call of the forEach callback.
ClassifyFile ==
  /\ pc = "classify"
  /\ response.hasFiles
  /\ idx < Len(files)
  /\ LET file == files[idx + 1]
         filename == file.filename
     IN  /\ SetFailed((IF SpaceFails(format, filename) THEN {"space"} ELSE {})
                      \cup (IF file.status \notin KnownStatuses
                            THEN {"unknown_status"} ELSE {}))
         /\ all' = Append(all, filename)
         /\ added' = IF file.status = "added" THEN Append(added, filename) ELSE added
         /\ modified' =
              IF file.status = "modified" THEN Append(modified, filename) ELSE modified
         /\ removed' =
              IF file.status = "removed" THEN Append(removed, filename) ELSE removed
         /\ renamed' =
              IF file.status = "renamed" THEN Append(renamed, filename) ELSE renamed
         /\ addedModifiedRenamed' =
              IF PushesAddedModified(file.status)
              THEN Append(addedModifiedRenamed, filename) ELSE addedModifiedRenamed
  /\ idx' = idx + 1
  /\ UNCHANGED <<pc, context, branchListing, tokenInput, formatInput, extensionsInput,
                 remote, format, extensions, base, head, response, files, formatted,
                 outputs, compareCalls, gitCalls>>
  /\ UNCHANGED gitVars

\* The switch on format: under 'space-delimited' every name of `all` is
\* checked for a space again, then the six groups are rendered.
FormatGroups ==
  /\ pc = "classify"
  /\ (~response.hasFiles \/ idx = Len(files))
  /\ SetFailed(IF \E i \in 1..Len(all) : SpaceFails(format, all[i])
               THEN {"space"} ELSE {})
  /\ formatted' = [all |-> RenderGroup(format, all),
                   added |-> RenderGroup(format, added),
                   modified |-> RenderGroup(format, modified),
                   removed |-> RenderGroup(format, removed),
                   renamed |-> RenderGroup(format, renamed),
                   addedModified |-> RenderGroup(format, addedModifiedRenamed)]
  /\ pc' = "emit"
  /\ UNCHANGED <<context, branchListing, tokenInput, formatInput, extensionsInput,
                 remote, format, extensions, base, head, response, files, idx, all,
                 added, modified, removed, renamed, addedModifiedRenamed, outputs,
                 compareCalls, gitCalls>>
  /\ UNCHANGED gitVars

\* The seven core.setOutput calls; run() returns.
SetOutputs ==
  /\ pc = "emit"
  /\ outputs' = [n \in OutputNames |->
                   ToCommandValue(
                     CASE n = "all" -> formatted.all
                       [] n = "added" -> formatted.added
                       [] n = "modified" -> formatted.modified
                       [] n = "removed" -> formatted.removed
                       [] n = "renamed" -> formatted.renamed
                       [] n = "added_modified" -> formatted.addedModified
                       [] n = "deleted" -> formatted.removed)]
  /\ pc' = "done"
  /\ UNCHANGED <<context, branchListing, tokenInput, formatInput, extensionsInput,
                 remote, format, extensions, base, head, response, files, idx, all,
                 added, modified, removed, renamed, addedModifiedRenamed, formatted,
                 failures, exitCode, compareCalls, gitCalls>>
  /\ UNCHANGED gitVars

Next ==
  \/ ReadInputs
  \/ HandleUnknownEvent
  \/ HandlePushEvent
  \/ HandlePullRequestEvent
  \/ HandleWorkflowDispatchEvent
  \/ DispatchDiffNameStatus
  \/ DispatchDiffNameOnly
  \/ CompareCommits
  \/ ClassifyFile
  \/ FormatGroups
  \/ SetOutputs

Spec == Init /\ [][Next]_vars

(***************************************************************************)
(* git-helper.ts: client, getDefaultBranch, getDiff, getStatus.            *)
(*                                                                         *)
(* The output of ls-remote is a sequence of tokens: the words "ref:",      *)
(* "refs/heads/" and "HEAD", a name character "m", a blank, "/" and the    *)
(* line break.  No word arises from other tokens put together, so matching *)
(* the code's patterns on tokens is matching them on the characters.       *)
(***************************************************************************)
LsRemoteTokens == {"ref:", "refs/heads/", "HEAD", "m", " ", "/", "\n"}

\* The chunks in which an ls-remote output arrives: one token each.
LsRemoteChunks == {<<t>> : t \in LsRemoteTokens}

\* The chunks of any other subprocess: one or two characters.
PlainChunks == {c \in SeqsUpTo({"a", "\n"}, 2) : c # <<>>}

CommitRefs == {"c0", "c1"}

HasSlash(t) == t \in {"/", "refs/heads/"}

StartsWith(s, t) == s # <<>> /\ s[1] = t

EndsWith(s, t) == s # <<>> /\ s[Len(s)] = t

\* The ends j of a capture starting after position i that let
\* /refs\/heads\/([^/]+)\s+HEAD$/ match: the capture is line[i+1..j], without
\* "/", then one or more blanks, then HEAD as the last word.
CaptureEnds(line, i) ==
  {j \in (i + 1)..(Len(line) - 2) :
     /\ \A t \in (i + 1)..j : ~HasSlash(line[t])
     /\ \A t \in (j + 1)..(Len(line) - 1) : IsSpace(line[t])
     /\ line[Len(line)] = "HEAD"}

MatchStarts(line) ==
  {i \in 1..Len(line) : line[i] = "refs/heads/" /\ CaptureEnds(line, i) # {}}

Max(S) == CHOOSE x \in S : \A y \in S : y <= x

Min(S) == CHOOSE x \in S : \A y \in S : x <= y

\* line.match(/refs\/heads\/([^/]+)\s+HEAD$/): whether it matches, and
\* matches[1], the leftmost match's longest capture.
Matches(line) == MatchStarts(line) # {}

Capture(line) ==
  LET i == Min(MatchStarts(line)) IN SubSeq(line, i + 1, Max(CaptureEnds(line, i)))

\* The loop of getDefaultBranch over the lines: the value returned, or no
\* value (the function throws).
NoBranch == [found |-> FALSE, name |-> <<>>]

RECURSIVE ScanLines(_)
ScanLines(lines) ==
  IF lines = <<>> THEN NoBranch
  ELSE LET line == Trim(Head(lines)) IN
       IF (StartsWith(line, "ref:") \/ EndsWith(line, "HEAD")) /\ Matches(line)
       THEN [found |-> TRUE, name |-> Trim(Capture(line))]
       ELSE ScanLines(Tail(lines))

DefaultBranchOf(output) == ScanLines(Split(Trim(output), "\n"))

\* stdout.join('')
JoinChunksReversed(chunks) ==
  Join([i \in 1..Len(chunks) |-> chunks[Len(chunks) + 1 - i]], <<>>)

JoinChunks(chunks) == Join(chunks, <<>>)

\* io.which('git', true): the path when git is installed; it throws otherwise.
WhichFinds(installed) == installed

GitFrame == UNCHANGED runVars /\ UNCHANGED gitInstalled

CallFrame ==
  /\ gpc' = "which"
  /\ UNCHANGED <<gClient, gStdout, gWritten, gExecCalls, gExited, gResult, gReturn,
                 gError>>
  /\ GitFrame

\* client(args), called directly.
CallClient ==
  /\ gpc = "idle"
  /\ gEntry' = "client"
  /\ \E args \in {<<"-P", "branch">>, <<"--version">>} : gArgs' = args
  /\ CallFrame

\* getDiff(base, head, ...args) calls client(['diff', ...args, base, head]).
CallGetDiff ==
  /\ gpc = "idle"
  /\ gEntry' = "getDiff"
  /\ \E b \in CommitRefs, h \in CommitRefs, args \in {<<>>, <<"--name-only">>} :
       gArgs' = <<"diff">> \o args \o <<b, h>>
  /\ CallFrame

\* getStatus(...args) calls client(['status', ...args]).
CallGetStatus ==
  /\ gpc = "idle"
  /\ gEntry' = "getStatus"
  /\ \E args \in {<<>>, <<"--short">>} : gArgs' = <<"status">> \o args
  /\ CallFrame

\* getDefaultBranch(repositoryUrl) calls client with the ls-remote arguments.
CallGetDefaultBranch ==
  /\ gpc = "idle"
  /\ gEntry' = "getDefaultBranch"
  /\ \E url \in {"origin"} :
       gArgs' = <<"ls-remote", "--quiet", "--exit-code", "--symref", url, "HEAD">>
  /\ CallFrame

\* await io.which('git', true)
Which ==
  /\ gpc = "which"
  /\ IF WhichFinds(gitInstalled)
     THEN /\ gClient' = "/usr/bin/git"
          /\ gpc' = "resolved"
          /\ UNCHANGED gError
     ELSE /\ gError' = "Unable to locate executable file"
          /\ gpc' = "failed"
          /\ UNCHANGED gClient
  /\ UNCHANGED <<gEntry, gArgs, gStdout, gWritten, gExecCalls, gExited, gResult, gReturn>>
  /\ GitFrame

\* exec(client, args, options) is called: the subprocess starts.
ExecStart ==
  /\ gpc = "resolved"
  /\ gExecCalls' = Append(gExecCalls, <<gClient, gArgs>>)
  /\ gpc' = "running"
  /\ UNCHANGED <<gEntry, gArgs, gClient, gStdout, gWritten, gExited, gResult, gReturn,
                 gError>>
  /\ GitFrame

\* The subprocess writes a chunk; listeners.stdout pushes data.toString().
StdoutData ==
  /\ gpc = "running"
  /\ gitInstalled
  /\ \E data \in (IF gEntry = "getDefaultBranch" THEN LsRemoteChunks ELSE PlainChunks) :
       /\ Len(gStdout) < (IF gEntry = "getDefaultBranch" THEN MaxOutLen ELSE MaxChunks)
       /\ gStdout' = Append(gStdout, data)
       /\ gWritten' = gWritten \o data
  /\ UNCHANGED <<gpc, gEntry, gArgs, gClient, gExecCalls, gExited, gResult, gReturn,
                 gError>>
  /\ GitFrame

\* The subprocess completes and the await of exec ends: with exit code 0
\* client returns stdout.join(''), which getDiff and getStatus return as it
\* is; any other exit code (or a tool that cannot be started) makes exec throw.
ExecExit ==
  /\ gpc = "running"
  /\ gExited' = TRUE
  /\ \E code \in {0, 1} :
       IF code = 0 /\ gitInstalled
       THEN /\ gResult' = JoinChunks(gStdout)
            /\ IF gEntry = "getDefaultBranch"
               THEN gpc' = "parse" /\ UNCHANGED gReturn
               ELSE gpc' = "returned" /\ gReturn' = gResult'
            /\ UNCHANGED gError
       ELSE /\ gError' = "The process failed"
            /\ gpc' = "failed"
            /\ UNCHANGED <<gResult, gReturn>>
  /\ UNCHANGED <<gEntry, gArgs, gClient, gStdout, gWritten, gExecCalls>>
  /\ GitFrame

\* The loop of getDefaultBranch and the throw after it.
ParseDefaultBranch ==
  /\ gpc = "parse"
  /\ LET r == DefaultBranchOf(gResult) IN
     IF r.found
     THEN /\ gReturn' = r.name
          /\ gpc' = "returned"
          /\ UNCHANGED gError
     ELSE /\ gError' = "Unexpected output when retrieving default branch"
          /\ gpc' = "failed"
          /\ UNCHANGED gReturn
  /\ UNCHANGED <<gEntry, gArgs, gClient, gStdout, gWritten, gExecCalls, gExited, gResult>>
  /\ GitFrame

\* The run-side variables while git-helper.ts is exercised on its own.
RunOff ==
  /\ pc = "off"
  /\ context = PushFull /\ branchListing = <<>> /\ tokenInput = TRUE
  /\ formatInput = "" /\ extensionsInput = <<>>
  /\ remote = RemoteThrows
  /\ RunIdle

InitGit ==
  /\ RunOff
  /\ GitIdle
  /\ gitInstalled \in BOOLEAN

NextGit ==
  \/ CallClient
  \/ CallGetDiff
  \/ CallGetStatus
  \/ CallGetDefaultBranch
  \/ Which
  \/ ExecStart
  \/ StdoutData
  \/ ExecExit
  \/ ParseDefaultBranch

SpecGit == InitGit /\ [][NextGit]_vars

(***************************************************************************)
(* Properties.                                                             *)
(***************************************************************************)
Names(entries) == [i \in 1..Len(entries) |-> entries[i].filename]

Range(s) == {s[i] : i \in 1..Len(s)}

\* run() is past the forEach: every surviving entry has been visited.
Classified == pc \in {"emit", "done"}

\* The comparison reported success and `ahead`.
AheadAnswer == response.received /\ response.status = 200 /\ response.cmp = "ahead"

\* The extension filter the `extensions` input lists: its blank-separated,
\* non-empty words.
ListedExtensions == {e \in Range(Split(Trim(extensionsInput), " ")) : e # <<>>}

\* An entry survives if its extension is in the filter, or the filter is empty.
Survives(e) == Extname(e.filename) \in ListedExtensions \/ ListedExtensions = {}

\* C1: when the comparison reports success and `ahead`, the `all` group holds
\* exactly the returned filenames that survive extension filtering (extension
\* in the filter, or the filter empty), once per returned entry, in returned
\* order.
C1_AllIsTheFilteredAnswer ==
  (Classified /\ AheadAnswer) =>
    all = Names(SelectSeq(response.files, Survives))

\* C2: in a successful run the `added_modified` group is the subsequence of
\* the filtered entry list (the list that builds `all`) of the entries whose
\* status is added, modified or renamed, in arrival order; no removed entry
\* is in it; and the `added_modified` output is that group rendered.
C2_AddedModifiedIsTheSubsequence ==
  LET amr == Names(SelectSeq(files,
                 LAMBDA e : e.status \in {"added", "modified", "renamed"}))
  IN  /\ (Classified /\ failures = {}) =>
           /\ all = Names(files)
           /\ addedModifiedRenamed = amr
           /\ Len(addedModifiedRenamed) =
                Cardinality({i \in 1..Len(files) : files[i].status # "removed"})
      /\ (pc = "done" /\ failures = {}) =>
           outputs["added_modified"] = RenderGroup(format, amr)

\* A successful run whose two surviving entries are a renamed file followed
\* by an added one, with a removed entry's place taken by neither.
C2_Witness ==
  /\ pc = "done" /\ failures = {}
  /\ Len(files) = 2
  /\ files[1].status = "renamed" /\ files[2].status = "added"
  /\ files[1].filename # files[2].filename
  /\ addedModifiedRenamed = <<files[1].filename, files[2].filename>>

\* A payload field the event's handler needs is absent.
RequiredFieldAbsent ==
  \/ context.eventName = "push" /\ Undefined \in {context.before, context.after}
  \/ context.eventName = "pull_request" /\ Undefined \in {context.prBase, context.prHead}

\* The event has a handler and its payload holds every field the handler reads.
PayloadComplete == context.eventName \in Events /\ ~RequiredFieldAbsent

\* C3: outputs are all-or-nothing: once a failure has been reported no named
\* output is set, and a run that ends in success has set all seven outputs
\* from the one classified entry list.  (Stated for the runs whose payload is
\* complete, so that a violation does not rest on the resolver.)
C3_OutputsAllOrNothing ==
  /\ (PayloadComplete /\ failures # {}) => DOMAIN outputs = {}
  /\ (pc = "done" /\ failures = {}) =>
       /\ DOMAIN outputs = OutputNames
       /\ outputs["all"] = RenderGroup(format, all)
       /\ outputs["added"] = RenderGroup(format, added)
       /\ outputs["modified"] = RenderGroup(format, modified)
       /\ outputs["removed"] = RenderGroup(format, removed)
       /\ outputs["renamed"] = RenderGroup(format, renamed)
       /\ outputs["added_modified"] = RenderGroup(format, addedModifiedRenamed)
       /\ outputs["deleted"] = outputs["removed"]

\* Some path accepted into `all` contains a space.
AcceptedPathWithSpace == \E i \in 1..Len(files) : Includes(files[i].filename, " ")

C5_OnlyAnAheadAnswerIsClassified ==
  (PayloadComplete /\ response.received /\ ~AheadAnswer) =>
     /\ failures # {}
     /\ idx = 0 /\ all = <<>>
     /\ formatted = NoFormatted
     /\ DOMAIN outputs = {}

\* C6: push resolves to (before, after) and pull_request to (base.sha,
\* head.sha) without a subprocess or remote call during resolution; an event
\* outside the three kinds, or an absent required payload field, ends the run
\* failed without the comparison ever being called.
C6_ResolverContract ==
  /\ (context.eventName = "push" /\ pc = "compare") =>
       /\ base = context.before /\ head = context.after
       /\ gitCalls = <<>> /\ compareCalls = <<>>
  /\ (context.eventName = "pull_request" /\ pc = "compare") =>
       /\ base = context.prBase /\ head = context.prHead
       /\ gitCalls = <<>> /\ compareCalls = <<>>
  /\ (context.eventName \notin Events \/ RequiredFieldAbsent) =>
       /\ compareCalls = <<>>
       /\ pc \in {"start", "resolve", "done"}
       /\ pc = "done" => failures # {}

\* The first branch of the listing, in listing order, whose whole name is
\* develop, main or master.
AnchoredParent(listing) ==
  IF \E i \in 1..Len(listing) : Len(listing[i]) = 1 /\ listing[i][1] \in ParentNames
  THEN listing[CHOOSE k \in 1..Len(listing) :
                 /\ Len(listing[k]) = 1 /\ listing[k][1] \in ParentNames
                 /\ \A j \in 1..(k - 1) :
                      ~(Len(listing[j]) = 1 /\ listing[j][1] \in ParentNames)][1]
  ELSE Undefined

C8_StatusGroupsPartitionAll ==
  (PayloadComplete /\ AheadAnswer) =>
  /\ Range(added) \cup Range(modified) \cup Range(removed) \cup Range(renamed)
       \subseteq Range(all)
  /\ Len(all) = Len(added) + Len(modified) + Len(removed) + Len(renamed)
  /\ \A i \in 1..idx : files[i].status \notin KnownStatuses => "unknown_status" \in failures

\* C7: client first resolves git and only then executes it; without git the
\* call fails and nothing is executed; on success the text returned is all
\* the chunks written, in arrival order, returned after the command ended.
C7_ClientResolvesThenExecutes ==
  /\ gExecCalls # <<>> =>
       /\ gitInstalled
       /\ gClient # Undefined
       /\ gExecCalls = << <<gClient, gArgs>> >>
  /\ (~gitInstalled /\ gpc \notin {"idle", "which"}) =>
       /\ gpc = "failed"
       /\ gExecCalls = <<>>
       /\ gResult = UnassignedText
  /\ gResult # UnassignedText =>
       /\ gExited
       /\ gResult = gWritten
  /\ (gpc = "returned" /\ gEntry # "getDefaultBranch") =>
       /\ gExited
       /\ gReturn = gWritten

\* getDiff returned the text of three chunks, the first unlike the last.
C7_Witness ==
  /\ gpc = "returned" /\ gEntry = "getDiff"
  /\ Len(gStdout) = 3
  /\ gStdout[1] # gStdout[3]
  /\ gReturn = gStdout[1] \o gStdout[2] \o gStdout[3]

\* C10: getDefaultBranch returns the name of the first line of the shape
\* refs/heads/<name><whitespace>HEAD, never an empty name nor one with "/",
\* and throws 'Unexpected output ...' when no line has the shape.
C10_DefaultBranchIsAName ==
  /\ (gEntry = "getDefaultBranch" /\ gpc = "returned") =>
       /\ gReturn # <<>>
       /\ \A i \in 1..Len(gReturn) : ~HasSlash(gReturn[i])
  /\ (gEntry = "getDefaultBranch" /\ gpc = "failed" /\ gResult # UnassignedText) =>
       \A line \in Range(Split(Trim(gResult), "\n")) : ~Matches(Trim(line))

====
